---- MODULE Spec2Model ----
(***************************************************************************)
(* The real-time matching and connection-approval engine of the car-pool   *)
(* backend: RealTimeMatchingService (services/RideMatchingService.js,      *)
(* second class of the file), the socket glue that calls it                *)
(* (setupMatchingSocket) and the ActiveSearch collection; and the seats    *)
(* of a ride under the connection requests of ConnectionService.           *)
(*                                                                         *)
(* Node runs one handler at a time, and a handler gives up control only    *)
(* at an `await` of real I/O (a MongoDB call).  Every action below is one  *)
(* such uninterrupted stretch of a handler; a handler that awaits I/O      *)
(* leaves a record in `tasks` that says where it resumes.  An `await` of   *)
(* an async method that itself does no I/O (cancelMatch, and               *)
(* initiateInstantConnection when both users are populated) only yields    *)
(* to the microtask queue and is not an interleaving point.                *)
(*                                                                         *)
(* Time is counted in units of TimeUnitMs (one minute): the 120 s match    *)
(* timer is 2 units, the 180 s TTL of a search is 3 units.                 *)
(***************************************************************************)
EXTENDS Integers, Sequences, FiniteSets, Bags, TLC

\* ------------------------------------------------------------- bounds
\* number of ActiveSearch documents ever created
MaxSearches == 2
\* number of entries ever stored in activeMatches (match objects)
MaxInst == 2
\* number of handlers suspended at an await at the same time
MaxTasks == 2
\* number of emits that throw in one run (FaultSpec)
MaxFaults == 1
\* number of socket connections opened (SocketSpec)
MaxConns == 2
\* number of chat messages whose handler is suspended (SocketSpec)
MaxChats == 1
\* largest number of seats a ride is posted with (SeatSpec)
MaxSeats == 2
\* number of connection requests ever created (SeatSpec)
MaxRequests == 2

\* ------------------------------------------------------------- constants
MatchTimeoutMs == 120000
SearchTTLSec == 180
PickupRadius == 5000
DropRadius == 5000
EarthRadius == 6371000
TimeUnitMs == 60 * 1000
MatchTimeout == MatchTimeoutMs \div TimeUnitMs
SearchTTL == (SearchTTLSec * 1000) \div TimeUnitMs

Users == {"u1", "u2", "u3"}

\* Coordinates are integers in units of 1e-5 degree.  The places of the
\* model lie on one meridian (lng 77.59), where the haversine formula
\* reduces to R * |dLat| (in radians).
Lng0 == 7759 * 1000
\* the coordinates of a start_search that has no pickupCoords or dropCoords
NoCoords == 0 - 1000 * 1000 * 1000
\* a latitude as the store accepts it in a GeoJSON point: within [-90, 90]
MaxLatitude == 90 * 100000

\* The start_search events the clients send: u1 asks for a car and also
\* offers one, u2 offers a car on a compatible route (3.3 km away at both
\* ends), on one whose drop is 11 km away and on one whose pickup is 14 km
\* away; u1 also sends a search without pickup coordinates.  u3 never
\* searches: it is the outsider that approves, denies and disconnects.
SearchInputs ==
    { <<"u1", "findCar", [pickup |-> NoCoords, drop |-> 1300000]>>,
      <<"u1", "findCar", [pickup |-> 1297000, drop |-> 1300000]>>,
      <<"u1", "poolCar", [pickup |-> 1297000, drop |-> 1300000]>>,
      <<"u2", "poolCar", [pickup |-> 1300000, drop |-> 1297000]>>,
      <<"u2", "poolCar", [pickup |-> 1297000, drop |-> 1310000]>>,
      <<"u2", "poolCar", [pickup |-> 1310000, drop |-> 1300000]>> }

MatchIds == Users \X Users

Abs(x) == IF x < 0 THEN -x ELSE x

\* ------------------------------------------------------------- state
VARIABLES
    searches,       \* the ActiveSearch collection, in insertion order
    activeMatches,  \* this.activeMatches: matchId -> match object
    timers,         \* pending setTimeout(expireMatch) callbacks
    tasks,          \* handlers suspended at an await (a bag)
    nextSearch,     \* next ActiveSearch _id
    hist,           \* per match object: what the server emitted for it
    out,            \* the events emitted by the last step
    call,           \* a call of a pure function: its name and arguments; in
                    \* SocketSpec the client event a socket handler was called
                    \* for, with the user id it is handled for
    ret,            \* what that call returned, <<>> before it returns
    sockets,        \* the socket connections that went through the handshake
    faults,         \* the number of emits that have thrown
    ride,           \* the Ride document of the connection requests
    connections     \* the Connection collection, in insertion order

vars == <<searches, activeMatches, timers, tasks, nextSearch, hist, out, call, ret,
          sockets, faults, ride, connections>>

\* ------------------------------------------------------------- events
Ev(name, to, id, inst, info) ==
    [name |-> name, to |-> to, id |-> id, inst |-> inst, info |-> info]

\* mutant of MatchError: the error goes to a room instead of the sender
MatchErrorToRoom(to, info) == Ev("match_error", "room", <<>>, 0, info)

MatchError(to, info) == Ev("match_error", to, <<>>, 0, info)

\* ------------------------------------------------------------- distance
\* Metres per tenth of a degree of a great circle: R * pi / 180 / 10, with
\* pi = 355/113 (integers are 32 bits wide in the checker).
MetresPerTenthDegree == ((EarthRadius \div 10) * 355) \div (113 * 180)

RECURSIVE SqrtBetween(_, _, _)
\* the largest k in lo..hi with k * k <= n
SqrtBetween(n, lo, hi) ==
    IF lo >= hi THEN lo
    ELSE LET mid == (lo + hi + 1) \div 2
         IN IF mid * mid <= n THEN SqrtBetween(n, mid, hi)
                              ELSE SqrtBetween(n, lo, mid - 1)

\* Math.sqrt, rounded down
Isqrt(n) == SqrtBetween(n, 0, 46340)

\* Math.cos(lat * Math.PI / 180) in thousandths, by its Taylor series up to
\* the fourth power (lat in 1e-5 degree, the angle in milliradians)
CosPermille(lat) ==
    LET xm == ((Abs(lat) \div 100) * 355) \div (113 * 180)
        x2 == xm * xm
    IN 1000 - (x2 \div 2000) + ((x2 \div 1000) * (x2 \div 1000)) \div 24000

\* The haversine formula of calculateDistance (lines 861-868) and of
\* calculateHaversineDistance (lines 223-235), in metres, for two points
\* less than 0.4 degree apart, where sin x = x and
\* 2 * atan2(sqrt a, sqrt (1 - a)) = 2 * sqrt a hold to less than a metre:
\*   R * sqrt(dLat^2 + cos(lat1) * cos(lat2) * dLng^2), angles in radians.
\* The squares are kept in units of (1e-4 degree)^2.
haversine(lat1, lng1, lat2, lng2) ==
    LET dLat  == lat2 - lat1
        dLng  == lng2 - lng1
        sqLat == (dLat * dLat) \div 100
        sqLng == (dLng * dLng) \div 100
        cc    == (CosPermille(lat1) * CosPermille(lat2)) \div 1000
        a     == sqLat + (sqLng \div 1000) * cc + ((sqLng % 1000) * cc) \div 1000
        c     == Isqrt(a)
    IN (c * MetresPerTenthDegree) \div 1000

\* mutant of calculateDistance: the signed difference of the latitudes
calculateDistanceSigned(lat1, lng1, lat2, lng2) ==
    ((lat2 - lat1) * MetresPerTenthDegree) \div 10000

\* calculateDistance(lat1, lng1, lat2, lng2), in metres
calculateDistance(lat1, lng1, lat2, lng2) ==
    IF lat1 = lat2 /\ lng1 = lng2 THEN 0
    ELSE LET latDiff == Abs(lat1 - lat2)
             lngDiff == Abs(lng1 - lng2)
         IN IF latDiff < 10 /\ lngDiff < 10
            THEN \* flat-plane branch: sqrt(latDiff^2 + lngDiff^2) * 111000
                 (Isqrt(latDiff * latDiff + lngDiff * lngDiff) * 111000) \div 100000
            ELSE haversine(lat1, lng1, lat2, lng2)

\* the value JavaScript's Infinity stands for: above every distance
Infinity == 2147483647

\* RideMatchingService.calculateHaversineDistance(coord1, coord2): a
\* coordinate that is 0 is falsy and makes the guard of line 219 return
\* Infinity
calculateHaversineDistance(coord1, coord2) ==
    IF coord1.lat = 0 \/ coord1.lng = 0 \/ coord2.lat = 0 \/ coord2.lng = 0
    THEN Infinity
    ELSE haversine(coord1.lat, coord1.lng, coord2.lat, coord2.lng)

\* mutant of areSearchesCompatible: the pickup distance alone decides
areSearchesCompatiblePickupOnly(s1, s2) ==
    calculateDistance(s1.pickup, Lng0, s2.pickup, Lng0) <= PickupRadius

\* areSearchesCompatible(search1, search2)
areSearchesCompatible(s1, s2) ==
    LET pickupDistance == calculateDistance(s1.pickup, Lng0, s2.pickup, Lng0)
        dropDistance   == calculateDistance(s1.drop, Lng0, s2.drop, Lng0)
    IN pickupDistance <= PickupRadius /\ dropDistance <= DropRadius

\* ------------------------------------------------------------- matches
\* userHasPendingMatch(userId), over a given value of the map
userHasPendingMatch(am, u) ==
    \E id \in DOMAIN am :
        /\ am[id].user1 = u \/ am[id].user2 = u
        /\ am[id].status = "pending_approval"

\* The record kept of one match object: the two search documents it was
\* made from, the caller that made it ("scan": performContinuousMatching,
\* "search": handleNewSearch), and what the server has emitted for it: the
\* number of connection_established events to user1 and to user2, and the
\* reasons of its match_cancelled events.
NewHist(id, s1, s2, by) ==
    [id |-> id, conn |-> <<0, 0>>, cancel |-> <<>>, s1 |-> s1, s2 |-> s2, by |-> by]

\* A handler's view of the coordinator while it runs:
\* am = activeMatches, tm = timers, h = hist, ev = events emitted so far.
St(am, tm, h, ev) == [am |-> am, tm |-> tm, h |-> h, ev |-> ev]

\* initiateInstantConnection, lines 493-508: the map entry is (over)written
StoreMatch(st, s1, s2, by) ==
    LET id   == <<s1.user, s2.user>>
        inst == Len(st.h) + 1
        m    == [user1 |-> s1.user, user2 |-> s2.user,
                 search1 |-> s1.sid, search2 |-> s2.sid,
                 status |-> "pending_approval", approvals |-> {}, inst |-> inst]
    IN St((id :> m) @@ st.am, st.tm, Append(st.h, NewHist(id, s1, s2, by)), st.ev)

\* initiateInstantConnection, lines 553-561: both users are notified and
\* the expiry timer of the matchId is started
NotifyMatch(st, id, inst) ==
    St(st.am,
       st.tm \cup {[id |-> id, inst |-> inst, left |-> MatchTimeout]},
       st.h,
       st.ev \o << Ev("instant_match_found", id[1], id, inst, ""),
                   Ev("instant_match_found", id[2], id, inst, "") >>)

\* initiateInstantConnection when both searches carry a populated user
\* (the periodic scan): no await between the two parts
initiateInstantConnection(st, s1, s2) ==
    NotifyMatch(StoreMatch(st, s1, s2, "scan"), <<s1.user, s2.user>>, Len(st.h) + 1)

\* cancelMatch(match, reason)
cancelMatch(st, m, reason) ==
    LET matchId == <<m.user1, m.user2>>
    IN St([id \in DOMAIN st.am \ {matchId} |-> st.am[id]],
          st.tm,
          [st.h EXCEPT ![m.inst].cancel = Append(@, reason)],
          st.ev \o << Ev("match_cancelled", m.user1, matchId, m.inst, reason),
                      Ev("match_cancelled", m.user2, matchId, m.inst, reason) >>)

Here == St(activeMatches, timers, hist, <<>>)

\* no ride has been posted
NoRide == [availableSeats |-> 0, connectedUsers |-> <<>>, seats |-> 0]

Commit(st) ==
    /\ activeMatches' = st.am
    /\ timers' = st.tm
    /\ hist' = st.h
    /\ out' = st.ev

Init ==
    /\ searches = <<>>
    /\ activeMatches = [id \in {} |-> {}]
    /\ timers = {}
    /\ tasks = EmptyBag
    /\ nextSearch = 1
    /\ hist = <<>>
    /\ out = <<>>
    /\ call = <<>>
    /\ ret = <<>>
    /\ sockets = <<>>
    /\ faults = 0
    /\ ride = NoRide
    /\ connections = <<>>

\* ------------------------------------------------------------- tasks
NoDoc == [sid |-> 0, user |-> "", type |-> "", pickup |-> 0, drop |-> 0]

\* the part of a document a handler keeps after the query returned it
Doc(s) == [sid |-> s.sid, user |-> s.user, type |-> s.type,
           pickup |-> s.pickup, drop |-> s.drop]

\* a document as the collection holds it: age counts the time units since
\* expiresAt (its creation)
Stored(d) == [sid |-> d.sid, user |-> d.user, type |-> d.type,
              pickup |-> d.pickup, drop |-> d.drop, age |-> 0]

Task(kind, pc, user, s, snap, id, inst) ==
    [kind |-> kind, pc |-> pc, user |-> user, s |-> s, snap |-> snap,
     id |-> id, inst |-> inst]

Running == BagToSet(tasks)
NTasks == BagCardinality(tasks)
Spawn(t) == tasks (+) SetToBag({t})
Finish(t) == tasks (-) SetToBag({t})
Resume(t, t2) == (tasks (-) SetToBag({t})) (+) SetToBag({t2})

\* ActiveSearch.deleteMany({ user: ... })
deleteMany(coll, us) == SelectSeq(coll, LAMBDA s : s.user \notin us)

\* ------------------------------------------------------------- start_search
\* The coordinates ActiveSearch.create can store: pickupCoords.lng of a
\* missing pickupCoords throws a TypeError (line 402), and the 2dsphere
\* index refuses a point whose latitude is out of range.
validCoords(lat) == lat # NoCoords /\ Abs(lat) <= MaxLatitude

\* handleNewSearch, line 393: the handler starts and its deleteMany runs.
\* A start_search is handled only while fewer than MaxSearches documents
\* have been created or are about to be.
NewSearchDelete(u, type, route) ==
    /\ NTasks < MaxTasks
    /\ nextSearch + Cardinality({t \in Running : t.kind = "new" /\ t.pc = "create"})
          <= MaxSearches
    /\ searches' = deleteMany(searches, {u})
    /\ tasks' = Spawn(Task("new", "create", u,
                           [sid |-> 0, user |-> u, type |-> type,
                            pickup |-> route.pickup, drop |-> route.drop],
                           <<>>, <<>>, 0))
    /\ out' = <<>>
    /\ UNCHANGED <<activeMatches, timers, nextSearch, hist>>

\* handleNewSearch, lines 396-423, after deleteMany returned.  With valid
\* coordinates ActiveSearch.create stores the document, the socket joins
\* search_<user>, search_started is emitted and findInstantMatches starts.
\* Otherwise the error is thrown on (line 434) to the start_search handler
\* of the socket, which emits search_error.
NewSearchCreate(t) ==
    /\ t.kind = "new" /\ t.pc = "create"
    /\ IF validCoords(t.s.pickup) /\ validCoords(t.s.drop)
       THEN /\ LET doc == [t.s EXCEPT !.sid = nextSearch]
               IN /\ searches' = Append(searches, Stored(doc))
                  /\ tasks' = Resume(t, [t EXCEPT !.pc = "find", !.s = doc])
            /\ nextSearch' = nextSearch + 1
            /\ out' = << Ev("search_started", t.user, <<>>, 0, "") >>
       ELSE /\ tasks' = Finish(t)
            /\ out' = << Ev("search_error", t.user, <<>>, 0, "Failed to start search") >>
            /\ UNCHANGED <<searches, nextSearch>>
    /\ UNCHANGED <<activeMatches, timers, hist>>

\* findInstantMatches: the $near query (other users, opposite type, pickup
\* within 5 km, nearest first) and the filter on both distances
PickupDistance(a, b) == calculateDistance(a.pickup, Lng0, b.pickup, Lng0)

\* mutant of findInstantMatches: the query does not ask for the opposite type
findInstantMatchesAnyType(coll, as) ==
    LET near == SelectSeq(coll, LAMBDA s :
                    /\ s.user # as.user
                    /\ PickupDistance(as, s) <= PickupRadius)
    IN SelectSeq(near, LAMBDA s : areSearchesCompatible(as, s))

findInstantMatches(coll, as) ==
    LET oppositeType == IF as.type = "findCar" THEN "poolCar" ELSE "findCar"
        near == SelectSeq(coll, LAMBDA s :
                    /\ s.user # as.user
                    /\ s.type = oppositeType
                    /\ PickupDistance(as, s) <= PickupRadius)
        compatibleMatches == SelectSeq(near, LAMBDA s : areSearchesCompatible(as, s))
    IN compatibleMatches

\* matches[0] of the result, which $near returns nearest first
Nearest(as, ms) ==
    LET i == CHOOSE i \in 1..Len(ms) :
                 \A j \in 1..Len(ms) :
                     \/ PickupDistance(as, ms[i]) < PickupDistance(as, ms[j])
                     \/ PickupDistance(as, ms[i]) = PickupDistance(as, ms[j]) /\ i <= j
    IN Doc(ms[i])

\* handleNewSearch, lines 423-428, and initiateInstantConnection up to its
\* await of User.findById (search1.user is an id here, not a document)
NewSearchFind(t) ==
    /\ t.kind = "new" /\ t.pc = "find"
    /\ LET matches == findInstantMatches(searches, t.s)
       IN IF Len(matches) > 0
          THEN /\ Len(hist) < MaxInst
               /\ LET st == StoreMatch(Here, t.s, Nearest(t.s, matches), "search")
                  IN Commit(st)
               /\ tasks' = Resume(t, [t EXCEPT !.pc = "notify",
                                               !.id = <<t.s.user, Nearest(t.s, matches).user>>,
                                               !.inst = Len(hist) + 1])
          ELSE /\ tasks' = Finish(t)
               /\ out' = <<>>
               /\ UNCHANGED <<activeMatches, timers, hist>>
    /\ UNCHANGED <<searches, nextSearch>>

\* initiateInstantConnection, lines 514-561, after User.findById returned
NewSearchNotify(t) ==
    /\ t.kind = "new" /\ t.pc = "notify"
    /\ Commit(NotifyMatch(Here, t.id, t.inst))
    /\ tasks' = Finish(t)
    /\ UNCHANGED <<searches, nextSearch>>

\* ------------------------------------------------------------- periodic scan
\* performContinuousMatching, line 293: the interval fires and the store
\* evaluates ActiveSearch.find({}); the handler waits for the answer.  A scan
\* of the empty collection pairs nothing whatever happens meanwhile, and is
\* left out.
ScanFind ==
    /\ NTasks < MaxTasks
    /\ Len(searches) >= 1
    /\ tasks' = Spawn(Task("scan", "loop", "", NoDoc,
                           [i \in 1..Len(searches) |-> Doc(searches[i])], <<>>, 0))
    /\ out' = <<>>
    /\ UNCHANGED <<searches, activeMatches, timers, nextSearch, hist>>

\* mutant of ScanPool: the inner loop pairs nothing
ScanPoolNoMatch(fc, pools, j, st) == st

\* mutant of ScanPool: the last free compatible poolCar search is taken
ScanPoolLast(fc, pools, j, st) ==
    LET ok == {k \in j..Len(pools) :
                  /\ ~userHasPendingMatch(st.am, pools[k].user)
                  /\ areSearchesCompatible(fc, pools[k])}
    IN IF ok = {} THEN st
       ELSE initiateInstantConnection(st, fc, pools[CHOOSE k \in ok : \A l \in ok : l <= k])

RECURSIVE ScanPool(_, _, _, _)
\* lines 322-335: the inner loop over the poolCar searches
ScanPool(fc, pools, j, st) ==
    IF j > Len(pools) THEN st
    ELSE IF userHasPendingMatch(st.am, pools[j].user) THEN ScanPool(fc, pools, j + 1, st)
    ELSE IF areSearchesCompatible(fc, pools[j])
         THEN initiateInstantConnection(st, fc, pools[j])
         ELSE ScanPool(fc, pools, j + 1, st)

RECURSIVE ScanFindCar(_, _, _, _)
\* lines 315-336: the outer loop over the findCar searches
ScanFindCar(finds, pools, i, st) ==
    IF i > Len(finds) THEN st
    ELSE IF userHasPendingMatch(st.am, finds[i].user)
         THEN ScanFindCar(finds, pools, i + 1, st)
         ELSE ScanFindCar(finds, pools, i + 1, ScanPool(finds[i], pools, 1, st))

\* performContinuousMatching, lines 296-336, on the list the find returned:
\* fewer than two searches end the scan, otherwise the pairing loops run
ScanLoop(t) ==
    /\ t.kind = "scan" /\ t.pc = "loop"
    /\ LET findCarSearches == SelectSeq(t.snap, LAMBDA s : s.type = "findCar")
           poolCarSearches == SelectSeq(t.snap, LAMBDA s : s.type = "poolCar")
           st == IF Len(t.snap) < 2 THEN Here
                 ELSE ScanFindCar(findCarSearches, poolCarSearches, 1, Here)
       IN /\ Len(st.h) <= MaxInst
          /\ Commit(st)
    /\ tasks' = Finish(t)
    /\ UNCHANGED <<searches, nextSearch>>

\* The matchIds a client can send: those the server has announced in an
\* instant_match_found event, and one that no match ever had (u3 never
\* searches).
KnownIds ==
    {hist[i].id : i \in {j \in 1..Len(hist) :
        ~\E t \in Running : t.kind = "new" /\ t.pc = "notify" /\ t.inst = j}}
    \cup {<<"u3", "u3">>}

\* ------------------------------------------------------------- approve_match
\* mutant of approvalError: only the lookup and the membership are checked
approvalErrorMembershipOnly(am, id, u) ==
    IF id \notin DOMAIN am THEN "Match not found or expired"
    ELSE IF u # am[id].user1 /\ u # am[id].user2 THEN "You are not part of this match"
    ELSE ""

\* mutant of approvalError: the membership of the sender is not checked
approvalErrorAnyUser(am, id, u) ==
    IF id \notin DOMAIN am THEN "Match not found or expired"
    ELSE IF am[id].status # "pending_approval" THEN "Match is no longer available"
    ELSE IF u \in am[id].approvals THEN "You have already approved this match"
    ELSE ""

\* handleMatchApproval, lines 576-603: the four rejections, "" when accepted
approvalError(am, id, u) ==
    IF id \notin DOMAIN am THEN "Match not found or expired"
    ELSE IF am[id].status # "pending_approval" THEN "Match is no longer available"
    ELSE IF u # am[id].user1 /\ u # am[id].user2 THEN "You are not part of this match"
    ELSE IF u \in am[id].approvals THEN "You have already approved this match"
    ELSE ""

\* mutant of bothApproved: the connection is established at the first approval
bothApprovedAtFirst(approvals) == Cardinality(approvals) >= 1

\* line 611: match.approvals.size === 2
bothApproved(approvals) == Cardinality(approvals) = 2

\* handleMatchApproval; with the second approval establishConnection runs
\* up to its await of User.findById (lines 671-688)
ApproveMatch(u, id) ==
    LET err == approvalError(activeMatches, id, u)
    IN /\ IF err # ""
          THEN /\ out' = << MatchError(u, err) >>
               /\ UNCHANGED <<activeMatches, tasks>>
          ELSE LET m == activeMatches[id]
                   approvals == m.approvals \cup {u}
                   otherUserId == IF u = m.user1 THEN m.user2 ELSE m.user1
               IN IF bothApproved(approvals)
                  THEN /\ NTasks < MaxTasks
                       /\ activeMatches' = [activeMatches EXCEPT
                              ![id].approvals = approvals, ![id].status = "connected"]
                       /\ tasks' = Spawn(Task("est", "emit", "", NoDoc, <<>>, id, m.inst))
                       /\ out' = <<>>
                  ELSE /\ activeMatches' = [activeMatches EXCEPT ![id].approvals = approvals]
                       /\ out' = << Ev("approval_sent", u, id, m.inst, ""),
                                    Ev("partner_approved", otherUserId, id, m.inst, "") >>
                       /\ UNCHANGED tasks
       /\ UNCHANGED <<searches, timers, nextSearch, hist>>

\* establishConnection, line 674: `chat_${match.user1}_${match.user2}`
chatRoomId(user1, user2) == <<"chat", user1, user2>>

\* establishConnection, lines 690-732: both users are told, the chat room
\* gets its system message, ActiveSearch.deleteMany starts
EstablishEmit(t) ==
    /\ t.kind = "est" /\ t.pc = "emit"
    /\ hist' = [hist EXCEPT ![t.inst].conn = <<@[1] + 1, @[2] + 1>>]
    /\ out' = << Ev("connection_established", t.id[1], t.id, t.inst, ""),
                 Ev("connection_established", t.id[2], t.id, t.inst, ""),
                 Ev("chat_message", chatRoomId(t.id[1], t.id[2]), t.id, t.inst, "system") >>
    /\ tasks' = Resume(t, [t EXCEPT !.pc = "cleanup"])
    /\ UNCHANGED <<searches, activeMatches, timers, nextSearch>>

\* mutant of EstablishCleanup: only user1's search is deleted
EstablishCleanupUser1(t) ==
    /\ t.kind = "est" /\ t.pc = "cleanup"
    /\ searches' = deleteMany(searches, {t.id[1]})
    /\ tasks' = Finish(t)
    /\ out' = <<>>
    /\ UNCHANGED <<activeMatches, timers, nextSearch, hist>>

\* establishConnection, lines 729-732: the deleteMany of both users' searches
EstablishCleanup(t) ==
    /\ t.kind = "est" /\ t.pc = "cleanup"
    /\ searches' = deleteMany(searches, {t.id[1], t.id[2]})
    /\ tasks' = Finish(t)
    /\ out' = <<>>
    /\ UNCHANGED <<activeMatches, timers, nextSearch, hist>>

\* ------------------------------------------------------------- deny_match
\* handleMatchDenial
DenyMatch(u, id) ==
    /\ IF id \notin DOMAIN activeMatches
       THEN /\ out' = << MatchError(u, "Match not found or expired") >>
            /\ UNCHANGED <<activeMatches, timers, hist>>
       ELSE Commit(cancelMatch(Here, activeMatches[id], "denied"))
    /\ UNCHANGED <<searches, tasks, nextSearch>>

\* ------------------------------------------------------------- timeouts
\* mutant of expireMatch: the callback finds the match and leaves it
expireMatchKeeps(st, id) == st

\* expireMatch(matchId)
expireMatch(st, id) ==
    IF id \in DOMAIN st.am /\ st.am[id].status = "pending_approval"
    THEN cancelMatch(st, st.am[id], "expired")
    ELSE st

\* the setTimeout callback of initiateInstantConnection, lines 559-561
TimerFire(tm) ==
    /\ tm \in timers
    /\ tm.left = 0
    /\ Commit(expireMatch(St(activeMatches, timers \ {tm}, hist, <<>>), tm.id))
    /\ UNCHANGED <<searches, tasks, nextSearch>>

\* One time unit passes.  A timer that is due runs before more time passes,
\* and a handler's database calls return within the unit in which they
\* were made.
Tick ==
    /\ \A tm \in timers : tm.left > 0
    /\ NTasks = 0
    /\ timers # {} \/ \E i \in 1..Len(searches) : searches[i].age < SearchTTL
    /\ timers' = {[tm EXCEPT !.left = @ - 1] : tm \in timers}
    /\ searches' = [i \in 1..Len(searches) |->
                       [searches[i] EXCEPT !.age = IF @ < SearchTTL THEN @ + 1 ELSE @]]
    /\ out' = <<>>
    /\ UNCHANGED <<activeMatches, tasks, nextSearch, hist>>

\* ActiveSearchSchema.expiresAt: the store removes a document once it is
\* 180 s old
SearchExpire(i) ==
    /\ i \in 1..Len(searches)
    /\ searches[i].age >= SearchTTL
    /\ searches' = SelectSeq(searches, LAMBDA s : s.sid # searches[i].sid)
    /\ out' = <<>>
    /\ UNCHANGED <<activeMatches, timers, tasks, nextSearch, hist>>

\* ------------------------------------------------------------- disconnect
\* mutant of cancelAll: the pending matches of the user are left alone
cancelAllNone(st, ids, reason) == st

RECURSIVE cancelAll(_, _, _)
\* handleUserDisconnect, lines 819-827: every pending match of the user
cancelAll(st, ids, reason) ==
    IF ids = {} THEN st
    ELSE LET id == CHOOSE x \in ids : TRUE
         IN cancelAll(cancelMatch(st, st.am[id], reason), ids \ {id}, reason)

\* handleUserDisconnect up to its await of deleteMany, for a stop_search
\* event or a dropped connection.  For a user with no search, no pending
\* match and no start_search in progress the handler changes nothing.
UserDisconnect(u) ==
    /\ NTasks < MaxTasks
    /\ \/ \E i \in 1..Len(searches) : searches[i].user = u
       \/ userHasPendingMatch(activeMatches, u)
       \/ \E t \in Running : t.kind = "new" /\ t.user = u
    /\ LET mine == {id \in DOMAIN activeMatches :
                       /\ activeMatches[id].user1 = u \/ activeMatches[id].user2 = u
                       /\ activeMatches[id].status = "pending_approval"}
       IN Commit(cancelAll(Here, mine, "disconnected"))
    /\ tasks' = Spawn(Task("disc", "cleanup", u, NoDoc, <<>>, <<>>, 0))
    /\ UNCHANGED <<searches, nextSearch>>

\* handleUserDisconnect, line 830
DisconnectCleanup(t) ==
    /\ t.kind = "disc"
    /\ searches' = deleteMany(searches, {t.user})
    /\ tasks' = Finish(t)
    /\ out' = <<>>
    /\ UNCHANGED <<activeMatches, timers, nextSearch, hist>>

\* ------------------------------------------------------------- emit failures
\* Under Spec no emit raises an error.  The definitions of this section add
\* the runs of cancelMatch in which an emit of match_cancelled throws; they
\* are steps of FaultSpec only.

\* which of the two emits of cancelMatch throws: line 747 or line 752
EmitFaults == {1, 2}

\* cancelMatch(match, reason) when its k-th emit throws: the catch of line
\* 763 ends the method, the delete of line 759 is not reached
cancelMatchThrows(st, m, reason, k) ==
    LET matchId == <<m.user1, m.user2>>
    IN St(st.am, st.tm, st.h,
          IF k = 1 THEN st.ev
          ELSE st.ev \o << Ev("match_cancelled", m.user1, matchId, m.inst, reason) >>)

\* handleMatchDenial when the emit throws
DenyMatchThrows(u, id, k) ==
    /\ faults < MaxFaults
    /\ faults' = faults + 1
    /\ id \in DOMAIN activeMatches
    /\ Commit(cancelMatchThrows(Here, activeMatches[id], "denied", k))
    /\ UNCHANGED <<searches, tasks, nextSearch>>

\* the setTimeout callback when the emit of the expiry throws
TimerFireThrows(tm, k) ==
    /\ faults < MaxFaults
    /\ faults' = faults + 1
    /\ tm \in timers
    /\ tm.left = 0
    /\ tm.id \in DOMAIN activeMatches
    /\ activeMatches[tm.id].status = "pending_approval"
    /\ Commit(cancelMatchThrows(St(activeMatches, timers \ {tm}, hist, <<>>),
                                activeMatches[tm.id], "expired", k))
    /\ UNCHANGED <<searches, tasks, nextSearch>>

RECURSIVE cancelAllThrows(_, _, _, _, _)
\* handleUserDisconnect, lines 819-827, when the emits for the matches in
\* failing throw
cancelAllThrows(st, ids, reason, failing, k) ==
    IF ids = {} THEN st
    ELSE LET id == CHOOSE x \in ids : TRUE
             st2 == IF id \in failing
                    THEN cancelMatchThrows(st, st.am[id], reason, k)
                    ELSE cancelMatch(st, st.am[id], reason)
         IN cancelAllThrows(st2, ids \ {id}, reason, failing, k)

\* handleUserDisconnect up to its await of deleteMany when the emits for
\* the matches in failing throw: cancelMatch catches the error, the loop
\* and the deleteMany go on
UserDisconnectThrows(u, failing, k) ==
    /\ faults < MaxFaults
    /\ faults' = faults + Cardinality(failing)
    /\ NTasks < MaxTasks
    /\ LET mine == {id \in DOMAIN activeMatches :
                       /\ activeMatches[id].user1 = u \/ activeMatches[id].user2 = u
                       /\ activeMatches[id].status = "pending_approval"}
       IN /\ failing # {} /\ failing \subseteq mine
          /\ Commit(cancelAllThrows(Here, mine, "disconnected", failing, k))
    /\ tasks' = Spawn(Task("disc", "cleanup", u, NoDoc, <<>>, <<>>, 0))
    /\ UNCHANGED <<searches, nextSearch>>

\* ------------------------------------------------------------- specification
\* a step of the service leaves the record of the pure-function call and
\* the socket connections alone, and no emit throws in it
NoCall == UNCHANGED <<call, ret, sockets, faults, ride, connections>>

Next ==
    \/ \E in \in SearchInputs : NewSearchDelete(in[1], in[2], in[3]) /\ NoCall
    \/ \E t \in Running : NewSearchCreate(t) /\ NoCall
    \/ \E t \in Running : NewSearchFind(t) /\ NoCall
    \/ \E t \in Running : NewSearchNotify(t) /\ NoCall
    \/ ScanFind /\ NoCall
    \/ \E t \in Running : ScanLoop(t) /\ NoCall
    \/ \E u \in Users, id \in KnownIds : ApproveMatch(u, id) /\ NoCall
    \/ \E t \in Running : EstablishEmit(t) /\ NoCall
    \/ \E t \in Running : EstablishCleanup(t) /\ NoCall
    \/ \E u \in Users, id \in KnownIds : DenyMatch(u, id) /\ NoCall
    \/ \E tm \in timers : TimerFire(tm) /\ NoCall
    \/ Tick /\ NoCall
    \/ \E i \in 1..Len(searches) : SearchExpire(i) /\ NoCall
    \/ \E u \in Users : UserDisconnect(u) /\ NoCall
    \/ \E t \in Running : DisconnectCleanup(t) /\ NoCall

Spec == Init /\ [][Next]_vars

\* The database answers: a handler suspended in establishConnection resumes.
LiveSpec ==
    /\ Spec
    /\ WF_vars(\E t \in Running : EstablishEmit(t) /\ NoCall)
    /\ WF_vars(\E t \in Running : EstablishCleanup(t) /\ NoCall)

\* The service when an emit of match_cancelled can throw: the handlers of
\* the client events and the timers, with and without the failure.  The
\* periodic scan, which never calls cancelMatch, is left to Spec.
NoClient == UNCHANGED <<call, ret, sockets, ride, connections>>

FaultNext ==
    \/ \E in \in SearchInputs : NewSearchDelete(in[1], in[2], in[3]) /\ NoCall
    \/ \E t \in Running : NewSearchCreate(t) /\ NoCall
    \/ \E t \in Running : NewSearchFind(t) /\ NoCall
    \/ \E t \in Running : NewSearchNotify(t) /\ NoCall
    \/ \E u \in Users, id \in KnownIds : ApproveMatch(u, id) /\ NoCall
    \/ \E t \in Running : EstablishEmit(t) /\ NoCall
    \/ \E t \in Running : EstablishCleanup(t) /\ NoCall
    \/ \E u \in Users, id \in KnownIds : DenyMatch(u, id) /\ NoCall
    \/ \E tm \in timers : TimerFire(tm) /\ NoCall
    \/ Tick /\ NoCall
    \/ \E i \in 1..Len(searches) : SearchExpire(i) /\ NoCall
    \/ \E u \in Users : UserDisconnect(u) /\ NoCall
    \/ \E t \in Running : DisconnectCleanup(t) /\ NoCall
    \/ \E u \in Users, id \in KnownIds, k \in EmitFaults : DenyMatchThrows(u, id, k) /\ NoClient
    \/ \E tm \in timers, k \in EmitFaults : TimerFireThrows(tm, k) /\ NoClient
    \/ \E u \in Users, failing \in SUBSET DOMAIN activeMatches, k \in EmitFaults :
           UserDisconnectThrows(u, failing, k) /\ NoClient

FaultSpec == Init /\ [][FaultNext]_vars

\* ------------------------------------------------------------- sockets
\* setupMatchingSocket: the handshake of a connection and the handlers of
\* its client events.  The handlers hand socket.userId to the service; what
\* the service does for that user is the action of Spec with u =
\* socket.userId, and is not repeated here.
Conns == 1..MaxConns

\* process.env.JWT_SECRET
JwtSecret == "JWT_SECRET"

\* handshake.auth.token: absent, or a token signed with some key for some
\* user id, expired or not
NoToken == [present |-> FALSE, key |-> "", expired |-> FALSE, id |-> ""]

Tokens ==
    {NoToken} \cup
    {[present |-> TRUE, key |-> k, expired |-> e, id |-> u] :
        k \in {JwtSecret, "forged"}, e \in BOOLEAN, u \in Users}

\* mutant of jwtVerify: the payload is decoded, the signature is not checked
jwtDecodeOnly(token) == [ok |-> TRUE, decoded |-> [id |-> token.id]]

\* jwt.verify(token, process.env.JWT_SECRET): the payload, or an error for a
\* token signed with another key or past its expiry
jwtVerify(token) ==
    [ok |-> token.key = JwtSecret /\ ~token.expired, decoded |-> [id |-> token.id]]

\* the io.use middleware, lines 13-29: the error passed to next, "" for none,
\* and socket.userId
authenticate(token) ==
    IF ~token.present
    THEN [error |-> "Authentication error: No token provided", userId |-> ""]
    ELSE LET verified == jwtVerify(token)
         IN IF verified.ok
            THEN [error |-> "", userId |-> verified.decoded.id]
            ELSE [error |-> "Authentication error: Invalid token", userId |-> ""]

NoService ==
    UNCHANGED <<searches, activeMatches, timers, nextSearch, hist, faults, ride,
                connections>>

\* A client connects with a token.  io.on('connection') runs, and registers
\* the handlers of the socket, only when the middleware passed no error.
Handshake(c, token) ==
    /\ c \notin DOMAIN sockets
    /\ LET auth == authenticate(token)
       IN sockets' = (c :> [token |-> token, userId |-> auth.userId, rooms |-> {},
                            state |-> IF auth.error = "" THEN "connected" ELSE "rejected"])
                     @@ sockets
    /\ out' = <<>>
    /\ UNCHANGED <<tasks, call, ret>>
    /\ NoService

\* the socket has handlers registered
Connected(c) == c \in DOMAIN sockets /\ sockets[c].state = "connected"

\* the record of a client event handled on socket c
Handling(name, c, data) ==
    [fn |-> name, a |-> [user |-> sockets[c].userId], b |-> [conn |-> c, data |-> data]]

\* the chat rooms the clients name
ChatRooms == {chatRoomId("u1", "u2"), chatRoomId("u2", "u1")}

NoData == [room |-> <<>>, present |-> FALSE, text |-> <<>>]

\* start_search, approve_match, deny_match (lines 38-70): the service is
\* called with socket.userId
ServiceEvent(c, name) ==
    /\ Connected(c)
    /\ call' = Handling(name, c, NoData)
    /\ ret' = <<>>
    /\ out' = <<>>
    /\ UNCHANGED <<tasks, sockets>>
    /\ NoService

\* stop_search (lines 97-106): handleUserDisconnect(socket.userId), then
\* search_stopped to the socket
StopSearch(c) ==
    /\ Connected(c)
    /\ call' = Handling("stop_search", c, NoData)
    /\ ret' = <<>>
    /\ out' = << Ev("search_stopped", sockets[c].userId, <<>>, 0, "") >>
    /\ UNCHANGED <<tasks, sockets>>
    /\ NoService

\* join_chat_room (lines 90-94)
JoinChatRoom(c, room) ==
    /\ Connected(c)
    /\ sockets' = [sockets EXCEPT ![c].rooms = @ \cup {room}]
    /\ call' = Handling("join_chat_room", c, [NoData EXCEPT !.room = room])
    /\ ret' = <<>>
    /\ out' = <<>>
    /\ UNCHANGED tasks
    /\ NoService

\* an event about a chat room: user_typing and chat_message
ChatEv(name, room, info, senderId, message) ==
    [name |-> name, to |-> "room", id |-> room, inst |-> 0, info |-> info,
     senderId |-> senderId, message |-> message]

\* typing_start and typing_stop (lines 109-123)
Typing(c, room, name) ==
    /\ Connected(c)
    /\ call' = Handling(name, c, [NoData EXCEPT !.room = room])
    /\ ret' = <<>>
    /\ out' = << ChatEv("user_typing", room, name, sockets[c].userId, <<>>) >>
    /\ UNCHANGED <<tasks, sockets>>
    /\ NoService

\* disconnect (lines 126-138): handleUserDisconnect(socket.userId); the
\* socket has left its rooms
Disconnect(c) ==
    /\ Connected(c)
    /\ sockets' = [sockets EXCEPT ![c].state = "closed", ![c].rooms = {}]
    /\ call' = Handling("disconnect", c, NoData)
    /\ ret' = <<>>
    /\ out' = <<>>
    /\ UNCHANGED tasks
    /\ NoService

\* A message body is a sequence of characters, or absent.
Whitespace == {" ", "\t", "\n"}

ChatBodies ==
    { [present |-> FALSE, text |-> <<>>],
      [present |-> TRUE, text |-> <<>>],
      [present |-> TRUE, text |-> << " " >>],
      [present |-> TRUE, text |-> << "\t", " " >>],
      [present |-> TRUE, text |-> << "h", "i" >>],
      [present |-> TRUE, text |-> << " ", "h", " " >>] }

RECURSIVE trimStart(_)
trimStart(text) ==
    IF text = <<>> THEN text
    ELSE IF Head(text) \in Whitespace THEN trimStart(Tail(text)) ELSE text

RECURSIVE trimEnd(_)
trimEnd(text) ==
    IF text = <<>> THEN text
    ELSE IF text[Len(text)] \in Whitespace
         THEN trimEnd(SubSeq(text, 1, Len(text) - 1)) ELSE text

\* mutant of trim: the text as it is
trimNothing(text) == text

\* String.prototype.trim
trim(text) == trimEnd(trimStart(text))

\* !message, for an absent body and for a string
Falsy(body) == ~body.present \/ body.text = <<>>

\* send_chat_message (lines 73-87) up to the await of User.findById in
\* handleChatMessage (line 789)
SendChatMessage(c, room, body) ==
    /\ Connected(c)
    /\ call' = Handling("send_chat_message", c,
                        [room |-> room, present |-> body.present, text |-> body.text])
    /\ ret' = <<>>
    /\ IF Falsy(body) \/ trim(body.text) = <<>>
       THEN /\ out' = << Ev("chat_error", sockets[c].userId, <<>>, 0,
                            "Message cannot be empty") >>
            /\ UNCHANGED tasks
       ELSE /\ Cardinality({t \in Running : t.kind = "chat"}) < MaxChats
            /\ tasks' = Spawn(Task("chat", "send", sockets[c].userId, NoDoc,
                                   body.text, room, 0))
            /\ out' = <<>>
    /\ UNCHANGED sockets
    /\ NoService

\* handleChatMessage, lines 791-800: the message is broadcast to the room
ChatBroadcast(t) ==
    /\ t.kind = "chat"
    /\ out' = << ChatEv("chat_message", t.id, "user", t.user, trim(t.snap)) >>
    /\ tasks' = Finish(t)
    /\ UNCHANGED <<sockets, call, ret>>
    /\ NoService

SocketNext ==
    \/ \E c \in Conns, token \in Tokens : Handshake(c, token)
    \/ \E c \in Conns, name \in {"start_search", "approve_match", "deny_match"} :
           ServiceEvent(c, name)
    \/ \E c \in Conns : StopSearch(c)
    \/ \E c \in Conns, room \in ChatRooms : JoinChatRoom(c, room)
    \/ \E c \in Conns, room \in ChatRooms, name \in {"typing_start", "typing_stop"} :
           Typing(c, room, name)
    \/ \E c \in Conns, room \in ChatRooms, body \in ChatBodies :
           SendChatMessage(c, room, body)
    \/ \E t \in Running : ChatBroadcast(t)
    \/ \E c \in Conns : Disconnect(c)

SocketSpec == Init /\ [][SocketNext]_vars

\* ------------------------------------------------------------- the scan on longer lists
\* The periodic scan over a collection of four searches of four users, each
\* a findCar or a poolCar search on one of two routes that are 11 km apart
\* at the drop.  The searches have been stored for MatchTimeout, so that the
\* matches proposed when they were created have expired: no match is in
\* activeMatches, and hist starts with the matches of this scan.
ScanUsers == << "u1", "u2", "u3", "u4" >>

ScanRoutes ==
    { [pickup |-> 1297000, drop |-> 1300000],
      [pickup |-> 1297000, drop |-> 1310000] }

ScanLists ==
    { [k \in 1..Len(ScanUsers) |->
          [sid |-> k, user |-> ScanUsers[k], type |-> ty[k],
           pickup |-> ro[k].pickup, drop |-> ro[k].drop, age |-> MatchTimeout]] :
        ty \in [1..Len(ScanUsers) -> {"findCar", "poolCar"}],
        ro \in [1..Len(ScanUsers) -> ScanRoutes] }

ScanInit ==
    /\ searches \in ScanLists
    /\ activeMatches = [id \in {} |-> {}]
    /\ timers = {}
    /\ tasks = EmptyBag
    /\ nextSearch = Len(ScanUsers) + 1
    /\ hist = <<>>
    /\ out = <<>>
    /\ call = <<>>
    /\ ret = <<>>
    /\ sockets = <<>>
    /\ faults = 0
    /\ ride = NoRide
    /\ connections = <<>>

\* the interval fires, the loops run, and a user denies a proposal
ScanNext ==
    \/ ScanFind /\ NoCall
    \/ \E t \in Running : ScanLoop(t) /\ NoCall
    \/ \E u \in Users, id \in KnownIds : DenyMatch(u, id) /\ NoCall

ScanSpec == ScanInit /\ [][ScanNext]_vars

\* ------------------------------------------------------------- connection requests
\* ConnectionService: the requests to join a posted ride and the owner's
\* answers.  One ride, posted by RideOwner with 1..MaxSeats seats; `seats`
\* of the ride record is the number it was posted with (the document does
\* not keep it).  A step is the stretch of a handler up to its next await
\* together with the evaluation, by the store, of the operation it awaits.
\* A request does not reach its 24 h expiry in the model.
RideOwner == "owner"

Requesters == Users

Responses == {"accepted", "declined"}

Thrown(to, message) == Ev("error", to, <<>>, 0, message)

NoSearches ==
    UNCHANGED <<searches, activeMatches, timers, nextSearch, hist, call, ret, sockets,
                faults>>

SeatInit ==
    /\ searches = <<>>
    /\ activeMatches = [id \in {} |-> {}]
    /\ timers = {}
    /\ tasks = EmptyBag
    /\ nextSearch = 1
    /\ hist = <<>>
    /\ out = <<>>
    /\ call = <<>>
    /\ ret = <<>>
    /\ sockets = <<>>
    /\ faults = 0
    /\ ride \in {[availableSeats |-> n, connectedUsers |-> <<>>, seats |-> n] :
                    n \in 1..MaxSeats}
    /\ connections = <<>>

\* the createConnectionRequest calls that have not saved their request yet
Requesting == {t \in Running : t.kind = "request"}

\* createConnectionRequest, lines 22-27: Ride.findById is evaluated; the
\* handler keeps the availableSeats it read in t.inst
RequestFindRide(u) ==
    /\ NTasks < MaxTasks
    /\ Len(connections) + BagCardinality([t \in Requesting |-> CopiesIn(t, tasks)])
          < MaxRequests
    /\ tasks' = Spawn(Task("request", "check", u, NoDoc, <<>>, <<>>, ride.availableSeats))
    /\ out' = <<>>
    /\ UNCHANGED <<ride, connections>>
    /\ NoSearches

\* createConnectionRequest, lines 29-50: the checks on the ride that was
\* read, then Connection.findOne for a pending request of the requester
RequestFindOne(t) ==
    /\ t.kind = "request" /\ t.pc = "check"
    /\ IF t.inst <= 0
       THEN /\ tasks' = Finish(t)
            /\ out' = << Thrown(t.user, "No available seats in this ride") >>
       ELSE /\ tasks' = Resume(t, [t EXCEPT
                            !.pc = "save",
                            !.snap = IF \E i \in 1..Len(connections) :
                                            /\ connections[i].requester = t.user
                                            /\ connections[i].status = "pending"
                                     THEN << "existing" >> ELSE <<>>])
            /\ out' = <<>>
    /\ UNCHANGED <<ride, connections>>
    /\ NoSearches

\* createConnectionRequest, lines 52-67: the request is saved as pending
RequestSave(t) ==
    /\ t.kind = "request" /\ t.pc = "save"
    /\ IF t.snap # <<>>
       THEN /\ out' = << Thrown(t.user, "You already have a pending request for this ride") >>
            /\ UNCHANGED connections
       ELSE /\ connections' = Append(connections, [requester |-> t.user, status |-> "pending"])
            /\ out' = <<>>
    /\ tasks' = Finish(t)
    /\ UNCHANGED ride
    /\ NoSearches

\* respondToConnectionRequest, lines 100-110: Connection.findById with its
\* ride populated is evaluated; the handler keeps the status it read in
\* t.snap[2] and the availableSeats it read in t.inst
RespondFind(id, rideOwnerId, response) ==
    /\ NTasks < MaxTasks
    /\ id \in 1..Len(connections)
    /\ tasks' = Spawn(Task("respond", "check", rideOwnerId, NoDoc,
                           << response, connections[id].status >>, << id >>,
                           ride.availableSeats))
    /\ out' = <<>>
    /\ UNCHANGED <<ride, connections>>
    /\ NoSearches

\* respondToConnectionRequest, lines 112-134: the checks on the request that
\* was read, then connection.save() writes the answer as its status
RespondSave(t) ==
    /\ t.kind = "respond" /\ t.pc = "check"
    /\ IF t.user # RideOwner
       THEN /\ tasks' = Finish(t)
            /\ out' = << Thrown(t.user, "You are not authorized to respond to this request") >>
            /\ UNCHANGED connections
       ELSE IF t.snap[2] # "pending"
       THEN /\ tasks' = Finish(t)
            /\ out' = << Thrown(t.user, "This request has already been responded to or expired") >>
            /\ UNCHANGED connections
       ELSE /\ connections' = [connections EXCEPT ![t.id[1]].status = t.snap[1]]
            /\ tasks' = Resume(t, [t EXCEPT !.pc = "ride"])
            /\ out' = <<>>
    /\ UNCHANGED ride
    /\ NoSearches

\* lines 149-151: ride.availableSeats -= 1 on the document that was read,
\* connectedUsers.push, ride.save(): the store sets availableSeats to the
\* new value of the document and appends to connectedUsers
takeSeat(r, read, requester) ==
    [r EXCEPT !.availableSeats = read - 1,
              !.connectedUsers = Append(@, requester)]

\* respondToConnectionRequest, lines 136-151, after connection.save()
\* returned: for a declined request the method returns; for an accepted one
\* a ride that was read with no seat throws, otherwise the seat is taken
RespondRide(t) ==
    /\ t.kind = "respond" /\ t.pc = "ride"
    /\ IF t.snap[1] # "accepted"
       THEN /\ tasks' = Finish(t)
            /\ out' = <<>>
            /\ UNCHANGED ride
       ELSE IF t.inst <= 0
       THEN /\ tasks' = Finish(t)
            /\ out' = << Thrown(t.user, "No available seats remaining") >>
            /\ UNCHANGED ride
       ELSE /\ ride' = takeSeat(ride, t.inst, connections[t.id[1]].requester)
            /\ tasks' = IF t.inst - 1 = 0 THEN Resume(t, [t EXCEPT !.pc = "decline"])
                        ELSE Finish(t)
            /\ out' = <<>>
    /\ UNCHANGED connections
    /\ NoSearches

\* autoDeclinePendingRequests(rideId, excludeConnectionId)
autoDeclinePendingRequests(coll, excludeConnectionId) ==
    [i \in 1..Len(coll) |->
        IF i # excludeConnectionId /\ coll[i].status = "pending"
        THEN [coll[i] EXCEPT !.status = "declined"]
        ELSE coll[i]]

\* respondToConnectionRequest, lines 153-156, after ride.save() returned with
\* no seat left
RespondAutoDecline(t) ==
    /\ t.kind = "respond" /\ t.pc = "decline"
    /\ connections' = autoDeclinePendingRequests(connections, t.id[1])
    /\ tasks' = Finish(t)
    /\ out' = <<>>
    /\ UNCHANGED ride
    /\ NoSearches

SeatNext ==
    \/ \E u \in Requesters : RequestFindRide(u)
    \/ \E t \in Running : RequestFindOne(t)
    \/ \E t \in Running : RequestSave(t)
    \/ \E id \in 1..Len(connections), who \in {RideOwner, "u1"}, response \in Responses :
           RespondFind(id, who, response)
    \/ \E t \in Running : RespondSave(t)
    \/ \E t \in Running : RespondRide(t)
    \/ \E t \in Running : RespondAutoDecline(t)

SeatSpec == SeatInit /\ [][SeatNext]_vars

\* ------------------------------------------------------------- pure functions
\* The evaluators called on their own.  Latitudes of the searches: 3.3 km,
\* 4992 m, 5003 m and 14.4 km north of the first one.
PureLats == {1297000, 1300000, 1301490, 1301500, 1310000}

PureDocs ==
    {[sid |-> 0, user |-> "u1", type |-> ty, pickup |-> p, drop |-> d] :
        ty \in {"findCar", "poolCar"}, p \in PureLats, d \in PureLats}

\* Points around latitude 0, longitude 0: a coordinate is 0, 0.00004,
\* 0.03 or -0.03 degree.
PureCoords == {0 - 3000, 0, 4, 3000}

PurePoints == [lat : PureCoords, lng : PureCoords]

PureCalls ==
    {[fn |-> "areSearchesCompatible", a |-> d1, b |-> d2] : d1 \in PureDocs, d2 \in PureDocs}
    \cup {[fn |-> "chatRoomId", a |-> [user |-> X], b |-> [user |-> Y]] :
             X \in Users, Y \in Users}
    \cup {[fn |-> f, a |-> P, b |-> Q] :
             f \in {"calculateDistance", "calculateHaversineDistance"},
             P \in PurePoints, Q \in PurePoints}

PureInit ==
    /\ searches = <<>>
    /\ activeMatches = [id \in {} |-> {}]
    /\ timers = {}
    /\ tasks = EmptyBag
    /\ nextSearch = 1
    /\ hist = <<>>
    /\ out = <<>>
    /\ call \in PureCalls
    /\ ret = <<>>
    /\ sockets = <<>>
    /\ faults = 0
    /\ ride = NoRide
    /\ connections = <<>>

NoHandler ==
    UNCHANGED <<searches, activeMatches, timers, tasks, nextSearch, hist, out, call,
                sockets, faults, ride, connections>>

CallAreSearchesCompatible ==
    /\ call.fn = "areSearchesCompatible" /\ ret = <<>>
    /\ ret' = << areSearchesCompatible(call.a, call.b) >>
    /\ NoHandler

CallCalculateDistance ==
    /\ call.fn = "calculateDistance" /\ ret = <<>>
    /\ ret' = << calculateDistance(call.a.lat, call.a.lng, call.b.lat, call.b.lng) >>
    /\ NoHandler

CallCalculateHaversineDistance ==
    /\ call.fn = "calculateHaversineDistance" /\ ret = <<>>
    /\ ret' = << calculateHaversineDistance(call.a, call.b) >>
    /\ NoHandler

\* the chat room identifier of a match of user1 = call.a.user and
\* user2 = call.b.user
CallChatRoomId ==
    /\ call.fn = "chatRoomId" /\ ret = <<>>
    /\ ret' = << chatRoomId(call.a.user, call.b.user) >>
    /\ NoHandler

PureNext ==
    \/ CallChatRoomId
    \/ CallAreSearchesCompatible
    \/ CallCalculateDistance
    \/ CallCalculateHaversineDistance

PureSpec == PureInit /\ [][PureNext]_vars

\* ============================================================= claims
PendingOf(u) ==
    {id \in DOMAIN activeMatches :
        /\ activeMatches[id].user1 = u \/ activeMatches[id].user2 = u
        /\ activeMatches[id].status = "pending_approval"}

SearchesOf(coll, u) == {i \in 1..Len(coll) : coll[i].user = u}

\* C1: every user is userA or userB of at most one PendingMatch whose
\* status is pending_approval, whatever created the match (periodic scan
\* or the instant match of handleNewSearch).
C1_AtMostOnePendingMatch ==
    \A u \in Users : Cardinality(PendingOf(u)) <= 1

\* C2: at every moment each user owns at most one ActiveSearch record,
\* also when two start_search events of that user interleave.
C2_AtMostOneSearch ==
    \A u \in Users : Cardinality(SearchesOf(searches, u)) <= 1

\* C3: a PendingMatch has status connected only if its approvals contain
\* both userA and userB; approvals of one user alone, or of a user outside
\* the match, never connect it.
C3_ConnectedOnlyIfBothApproved ==
    \A id \in DOMAIN activeMatches :
        activeMatches[id].status = "connected" =>
            /\ activeMatches[id].user1 \in activeMatches[id].approvals
            /\ activeMatches[id].user2 \in activeMatches[id].approvals

\* C3 witness: a match is connected, with the approvals of its two
\* distinct users
C3_Witness ==
    \E id \in DOMAIN activeMatches :
        /\ activeMatches[id].status = "connected"
        /\ activeMatches[id].user1 # activeMatches[id].user2
        /\ activeMatches[id].approvals = {activeMatches[id].user1, activeMatches[id].user2}

\* the establishConnection calls suspended at pc for match object i
EstCount(i, pc) ==
    LET ts == {t \in Running : t.kind = "est" /\ t.pc = pc /\ t.inst = i}
    IN IF ts = {} THEN 0 ELSE CopiesIn(CHOOSE t \in ts : TRUE, tasks)

\* match object i is in the map with the given status
InMap(i, status) ==
    \E id \in DOMAIN activeMatches :
        activeMatches[id].inst = i /\ activeMatches[id].status = status

\* both users of match object i approved it and its connection_established
\* events have not been emitted yet
C4_Approved(i) ==
    /\ i <= Len(hist)
    /\ \E id \in DOMAIN activeMatches :
          /\ activeMatches[id].inst = i
          /\ activeMatches[id].user1 # activeMatches[id].user2
          /\ activeMatches[id].approvals = {activeMatches[id].user1, activeMatches[id].user2}
    /\ hist[i].conn # <<1, 1>>

\* connection_established went to both users of match object i exactly once,
\* establishConnection has run to its end, and no search of either user is
\* left
C4_Established(i) ==
    /\ i <= Len(hist)
    /\ hist[i].conn = <<1, 1>>
    /\ EstCount(i, "emit") = 0 /\ EstCount(i, "cleanup") = 0
    /\ SearchesOf(searches, hist[i].id[1]) = {}
    /\ SearchesOf(searches, hist[i].id[2]) = {}

\* C4: whenever both users have approved a match whose connection has not
\* been announced yet, connection_established eventually has gone to both
\* users and neither of them has an ActiveSearch record left.
C4_BothApproveEstablishes ==
    \A i \in 1..MaxInst : [](C4_Approved(i) => <>C4_Established(i))

\* C4 witness: the connection of a match was established and both searches
\* are gone
C4_Witness == \E i \in 1..MaxInst : C4_Established(i)

\* C5: when both users of a pending PendingMatch approve, in either order,
\* exactly one connection is established for the match and each of the two
\* users gets exactly one connection_established event.
C5_ExactlyOneConnection ==
    \A i \in 1..Len(hist) :
        /\ hist[i].conn[1] = hist[i].conn[2]
        /\ hist[i].conn[1] + EstCount(i, "emit") <= 1
        /\ InMap(i, "connected") => hist[i].conn[1] + EstCount(i, "emit") = 1

\* C5 witness: both users of a match got their connection_established
C5_Witness ==
    \E i \in 1..Len(hist) : hist[i].conn = <<1, 1>> /\ hist[i].id[1] # hist[i].id[2]

C7_DenyFreesBothUsers ==
    [][\A u \in Users, id \in DOMAIN activeMatches :
          ( /\ activeMatches[id].status = "pending_approval"
            /\ u \in {activeMatches[id].user1, activeMatches[id].user2}
            /\ DenyMatch(u, id) ) =>
              /\ id \notin DOMAIN activeMatches'
              /\ searches' = searches
              /\ hist'[activeMatches[id].inst].conn = <<0, 0>>
              /\ EstCount(activeMatches[id].inst, "emit")' = 0
              /\ ~userHasPendingMatch(activeMatches', activeMatches[id].user1)
              /\ ~userHasPendingMatch(activeMatches', activeMatches[id].user2)]_vars

\* the match_cancelled events with reason expired emitted for match object i
Expired(i) == Len(SelectSeq(hist[i].cancel, LAMBDA r : r = "expired"))

\* the expiry timer of match object i is running, or about to be started
HasOwnTimer(i) ==
    \/ \E tm \in timers : tm.inst = i
    \/ \E t \in Running : t.kind = "new" /\ t.pc = "notify" /\ t.inst = i

C9_TimerActsOnOwnMatch ==
    [][\A tm \in timers :
          ( /\ TimerFire(tm)
            /\ tm.id \in DOMAIN activeMatches
            /\ tm.id \notin DOMAIN activeMatches' ) =>
              \E own \in timers :
                  own.inst = activeMatches[tm.id].inst /\ own.left = 0]_vars

\* C10: when a PendingMatch is cancelled by its timeout, both users still
\* have their ActiveSearch record and neither has a pending match.
C10_ExpiryReturnsToSearching ==
    [][\A tm \in timers :
          ( /\ TimerFire(tm)
            /\ tm.id \in DOMAIN activeMatches
            /\ activeMatches[tm.id].status = "pending_approval" ) =>
              \A u \in {tm.id[1], tm.id[2]} :
                  /\ SearchesOf(searches', u) # {}
                  /\ ~userHasPendingMatch(activeMatches', u)]_vars

\* the pending matches of user u in the map am that were made by the
\* periodic scan or by the start_search of the other user
PendingNotOwn(am, h, u) ==
    {id \in DOMAIN am :
        /\ am[id].user1 = u \/ am[id].user2 = u
        /\ am[id].status = "pending_approval"
        /\ h[am[id].inst].by = "scan" \/ am[id].user1 # u}

\* C11: when the handling of a user's disconnect or stop_search completes,
\* the user has no ActiveSearch record and is in no pending match, whatever
\* periodic scans and start_search handlers of other users ran meanwhile.
C11_DisconnectReleasesUser ==
    [][\A t \in Running :
          DisconnectCleanup(t) =>
              /\ SearchesOf(searches', t.user) = {}
              /\ PendingNotOwn(activeMatches', hist', t.user) = {}]_vars

\* C12: when a user who is in a pending PendingMatch disconnects, the match
\* is cancelled with reason disconnected and match_cancelled goes to both
\* users; when the handler completes, the searches of the disconnecting
\* user are deleted and those of everybody else are as they were.
C12_DisconnectCancelsMatch ==
    /\ [][\A u \in Users :
             UserDisconnect(u) =>
                 /\ searches' = searches
                 /\ \A id \in PendingOf(u) :
                       LET m == activeMatches[id]
                       IN /\ id \notin DOMAIN activeMatches'
                          /\ hist'[m.inst].cancel = Append(hist[m.inst].cancel, "disconnected")
                          /\ \A w \in {m.user1, m.user2} :
                                \E k \in 1..Len(out') :
                                    out'[k] = Ev("match_cancelled", w, id, m.inst, "disconnected")]_vars
    /\ [][\A t \in Running :
             DisconnectCleanup(t) =>
                 /\ SearchesOf(searches', t.user) = {}
                 /\ SelectSeq(searches', LAMBDA x : x.user # t.user)
                        = SelectSeq(searches, LAMBDA x : x.user # t.user)
                 /\ activeMatches' = activeMatches]_vars

\* C12 witness: a pending match of two users was just cancelled because one
\* of them disconnected, and the partner still has its search
C12_Witness ==
    \E k \in 1..Len(out) :
        /\ out[k].name = "match_cancelled" /\ out[k].info = "disconnected"
        /\ out[k].id[1] # out[k].id[2]
        /\ SearchesOf(searches, out[k].id[1]) # {}
        /\ SearchesOf(searches, out[k].id[2]) # {}

\* the executions of performContinuousMatching that have started and not
\* finished
ScansInProgress ==
    LET scans == {t \in Running : t.kind = "scan"}
    IN BagCardinality([t \in scans |-> CopiesIn(t, tasks)])

\* C13: the periodic scan never runs concurrently with itself: at most one
\* execution of the scan is in progress at any time.
C13_ScanNeverOverlaps == ScansInProgress <= 1

\* match object i has become connected: establishConnection has started
\* for it
WasConnected(i) ==
    hist[i].conn # <<0, 0>> \/ EstCount(i, "emit") > 0

\* C14: once a match is connected, neither the periodic scan nor the
\* start_search of a user outside the match makes a new match from one of
\* the two ActiveSearch records the connected match was made from, also
\* before those records are deleted.
C14_ConnectedSearchNotRematched ==
    [][\A j \in (Len(hist) + 1)..Len(hist') :
          \A i \in 1..Len(hist) :
              ( /\ WasConnected(i)
                /\ \/ hist'[j].by = "scan"
                   \/ hist'[j].id[1] \notin {hist[i].id[1], hist[i].id[2]} ) =>
                  {hist'[j].s1.sid, hist'[j].s2.sid}
                      \cap {hist[i].s1.sid, hist[i].s2.sid} = {}]_vars

\* C15: every match ever made, by the periodic scan or by handleNewSearch,
\* pairs one findCar search with one poolCar search.
C15_OppositeKindsPaired ==
    \A i \in 1..Len(hist) :
        {hist[i].s1.type, hist[i].s2.type} = {"findCar", "poolCar"}

\* C15 witness: the scan has made a match and handleNewSearch has made one
C15_Witness ==
    \E i, j \in 1..Len(hist) :
        /\ hist[i].by = "scan" /\ hist[j].by = "search"
        /\ hist[i].s1.user # hist[i].s2.user

\* C16: no match is ever made from two searches whose pickup points or
\* whose drop points are more than 5000 m apart.
C16_MatchedWithinRadius ==
    \A i \in 1..Len(hist) :
        /\ calculateDistance(hist[i].s1.pickup, Lng0, hist[i].s2.pickup, Lng0) <= PickupRadius
        /\ calculateDistance(hist[i].s1.drop, Lng0, hist[i].s2.drop, Lng0) <= DropRadius

\* C16 witness: two searches of opposite kind and different users whose
\* drop points are too far apart have been stored for a minute, with no
\* handler in progress, and no match has been made
C16_Witness ==
    /\ \E a, b \in 1..Len(searches) :
          /\ searches[a].type # searches[b].type
          /\ searches[a].user # searches[b].user
          /\ ~areSearchesCompatible(searches[a], searches[b])
          /\ searches[a].age >= 1 /\ searches[b].age >= 1
    /\ NTasks = 0
    /\ hist = <<>>

\* the call of fn has returned
Returned(fn) == call # <<>> /\ call.fn = fn /\ ret # <<>>

\* C17: areSearchesCompatible returns false for every two searches of the
\* same kind, whatever their distances.
C17_SameKindIncompatible ==
    (Returned("areSearchesCompatible") /\ call.a.type = call.b.type) => ret[1] = FALSE

\* C18: for two searches of opposite kind, areSearchesCompatible returns
\* true exactly when the pickup points are at most 5000 m apart and the
\* drop points are at most 5000 m apart.
C18_BothDistancesRequired ==
    (Returned("areSearchesCompatible") /\ call.a.type # call.b.type) =>
        ret[1] = ( /\ calculateDistance(call.a.pickup, Lng0, call.b.pickup, Lng0) <= PickupRadius
                   /\ calculateDistance(call.a.drop, Lng0, call.b.drop, Lng0) <= DropRadius )

\* C18 witness: opposite kinds, pickups 4992 m apart, drops 5003 m apart,
\* and the answer was false
C18_Witness ==
    /\ Returned("areSearchesCompatible")
    /\ call.a.type # call.b.type
    /\ call.a.pickup = 1297000 /\ call.b.pickup = 1301490
    /\ call.a.drop = 1297000 /\ call.b.drop = 1301500
    /\ ret = << FALSE >>

\* C19: areSearchesCompatible(A, B) equals areSearchesCompatible(B, A).
C19_CompatibleSymmetric ==
    Returned("areSearchesCompatible") => ret[1] = areSearchesCompatible(call.b, call.a)

\* C19 witness: two different searches were found compatible
C19_Witness ==
    /\ Returned("areSearchesCompatible")
    /\ call.a.pickup < call.b.pickup /\ call.a.drop > call.b.drop
    /\ ret = << TRUE >>

\* C20: for all points P and Q, coordinates 0 included, calculateDistance
\* and calculateHaversineDistance return a value that is not negative, is
\* the same for (Q, P), and is 0 when P = Q.
C20_DistanceIsMetric ==
    /\ Returned("calculateDistance") =>
          /\ ret[1] >= 0
          /\ ret[1] = calculateDistance(call.b.lat, call.b.lng, call.a.lat, call.a.lng)
          /\ call.a = call.b => ret[1] = 0
    /\ Returned("calculateHaversineDistance") =>
          /\ ret[1] >= 0
          /\ ret[1] = calculateHaversineDistance(call.b, call.a)
          /\ call.a = call.b => ret[1] = 0

\* a findCar search a and a poolCar search b that are compatible and whose
\* owners both have no pending match in the map am
FreeCompatible(a, b, am) ==
    /\ a.type = "findCar" /\ b.type = "poolCar"
    /\ areSearchesCompatible(a, b)
    /\ ~userHasPendingMatch(am, a.user)
    /\ ~userHasPendingMatch(am, b.user)

\* the stored search s is in the list the scan t got from its find
InSnap(t, s) == \E k \in 1..Len(t.snap) : t.snap[k].sid = s.sid

\* C21 as claimed: when a periodic scan completes, no two stored searches
\* of two users are of opposite kind and compatible with both owners free
\* of a pending match.
C21_ScanLeavesNoFreePair ==
    [][\A t \in Running :
          ScanLoop(t) =>
              ~\E a, b \in 1..Len(searches') :
                  /\ searches'[a].user # searches'[b].user
                  /\ FreeCompatible(searches'[a], searches'[b], activeMatches')]_vars

\* C21 as amended: when a periodic scan completes, no two stored searches
\* that its find returned are of opposite kind and compatible with both
\* owners free of a pending match: the scan proposes a match for every such
\* pair it read.
C21_ScanPairsWhatItRead ==
    [][\A t \in Running :
          ScanLoop(t) =>
              ~\E a, b \in 1..Len(searches') :
                  /\ InSnap(t, searches'[a]) /\ InSnap(t, searches'[b])
                  /\ FreeCompatible(searches'[a], searches'[b], activeMatches')]_vars

\* C21 witness: a scan has just proposed a match to two users whose
\* searches are still stored
C21_Witness ==
    \E i \in 1..Len(hist) :
        /\ hist[i].by = "scan"
        /\ hist[i].id[1] # hist[i].id[2]
        /\ out = << Ev("instant_match_found", hist[i].id[1], hist[i].id, i, ""),
                    Ev("instant_match_found", hist[i].id[2], hist[i].id, i, "") >>
        /\ \E a, b \in 1..Len(searches) :
              searches[a].sid = hist[i].s1.sid /\ searches[b].sid = hist[i].s2.sid

\* connection_established is among the events ev
ConnectionAnnounced(ev) ==
    \E k \in 1..Len(ev) : ev[k].name = "connection_established"

\* C22: the first approval of a pending match leaves it pending_approval,
\* sends approval_sent to the approving user and partner_approved to the
\* other one and announces no connection; establishConnection starts only
\* in the step of the second approval, and connection_established is
\* emitted only by an establishConnection so started, for its match.
C22_FirstApprovalWaits ==
    /\ [][\A u \in Users, id \in DOMAIN activeMatches :
             ( /\ activeMatches[id].status = "pending_approval"
               /\ activeMatches[id].approvals = {}
               /\ u \in {activeMatches[id].user1, activeMatches[id].user2}
               /\ ApproveMatch(u, id) ) =>
                 LET m == activeMatches[id]
                     other == IF u = m.user1 THEN m.user2 ELSE m.user1
                 IN /\ activeMatches' = [activeMatches EXCEPT ![id].approvals = {u}]
                    /\ out' = << Ev("approval_sent", u, id, m.inst, ""),
                                 Ev("partner_approved", other, id, m.inst, "") >>
                    /\ tasks' = tasks
                    /\ hist' = hist]_vars
    /\ [][\A i \in 1..Len(hist) :
             EstCount(i, "emit")' > EstCount(i, "emit") =>
                 \E u \in Users, id \in DOMAIN activeMatches :
                     /\ activeMatches[id].inst = i
                     /\ Cardinality(activeMatches[id].approvals) = 1
                     /\ u \notin activeMatches[id].approvals
                     /\ ApproveMatch(u, id)]_vars
    /\ [][ /\ \A i \in 1..Len(hist) :
                 hist'[i].conn # hist[i].conn => EstCount(i, "emit") > 0
           /\ ConnectionAnnounced(out') =>
                 /\ EstCount(out'[1].inst, "emit") > 0
                 /\ hist'[out'[1].inst].conn # hist[out'[1].inst].conn ]_vars

\* C22 witness: the first approval of a match of two users has just been
\* answered with approval_sent and partner_approved
C22_Witness ==
    \E id \in DOMAIN activeMatches :
        LET m == activeMatches[id]
        IN /\ m.user1 # m.user2
           /\ m.status = "pending_approval"
           /\ m.approvals = {m.user2}
           /\ out = << Ev("approval_sent", m.user2, id, m.inst, ""),
                       Ev("partner_approved", m.user1, id, m.inst, "") >>

\* C23: once establishConnection has run to its end for a match, the match
\* is no longer in activeMatches.
C23_PromotedMatchRemoved ==
    [][\A t \in Running :
          EstablishCleanup(t) =>
              \A id \in DOMAIN activeMatches' : activeMatches'[id].inst # t.inst]_vars

\* C24: the chat room identifier of the match (userA = X, userB = Y) is the
\* one of the match (userA = Y, userB = X).
C24_ChatRoomOrderIndependent ==
    Returned("chatRoomId") => ret[1] = chatRoomId(call.b.user, call.a.user)

\* C25: when an emit of match_cancelled throws while a match is cancelled
\* for a denial, an expiry or a disconnect, the match is removed from
\* activeMatches all the same.
C25_CleanupDespiteEmitFailure ==
    [][\A k \in EmitFaults :
          /\ \A u \in Users, id \in DOMAIN activeMatches :
                DenyMatchThrows(u, id, k) => id \notin DOMAIN activeMatches'
          /\ \A tm \in timers :
                TimerFireThrows(tm, k) => tm.id \notin DOMAIN activeMatches'
          /\ \A u \in Users, failing \in SUBSET DOMAIN activeMatches :
                UserDisconnectThrows(u, failing, k) =>
                    failing \cap DOMAIN activeMatches' = {}]_vars

\* C26: a start_search whose pickup or drop coordinates are missing or out
\* of range changes nothing and ends with an error to its sender: no step
\* of its handler changes the ActiveSearch collection or activeMatches, and
\* the step in which it fails emits search_error to the sender.
C26_InvalidSearchChangesNothing ==
    /\ [][\A in \in SearchInputs :
             ( /\ ~(validCoords(in[3].pickup) /\ validCoords(in[3].drop))
               /\ NewSearchDelete(in[1], in[2], in[3]) ) =>
                 /\ searches' = searches
                 /\ activeMatches' = activeMatches]_vars
    /\ [][\A t \in Running :
             ( /\ ~(validCoords(t.s.pickup) /\ validCoords(t.s.drop))
               /\ NewSearchCreate(t) ) =>
                 /\ searches' = searches
                 /\ activeMatches' = activeMatches
                 /\ hist' = hist
                 /\ out' = << Ev("search_error", t.user, <<>>, 0, "Failed to start search") >>]_vars

\* C27: an approve_match or a deny_match of a user who is neither user of
\* the pending match it names is answered with the NotPartOfMatch error to
\* the sender and changes nothing: the match keeps its approvals, its
\* status and its place in activeMatches, and nothing else is emitted.
C27_OutsiderRejected ==
    [][\A u \in Users, id \in DOMAIN activeMatches :
          ( /\ activeMatches[id].status = "pending_approval"
            /\ u \notin {activeMatches[id].user1, activeMatches[id].user2}
            /\ ApproveMatch(u, id) \/ DenyMatch(u, id) ) =>
              /\ out' = << Ev("match_error", u, <<>>, 0, "You are not part of this match") >>
              /\ activeMatches' = activeMatches
              /\ tasks' = tasks
              /\ hist' = hist]_vars

\* C28: an approve_match or a deny_match that names a matchId that is not
\* in activeMatches (never created, cancelled or expired) is answered with
\* one match_error to its sender and changes no match, no search, no timer
\* and starts nothing.
C28_UnknownMatchRejected ==
    [][\A u \in Users, id \in KnownIds \ DOMAIN activeMatches :
          ( ApproveMatch(u, id) \/ DenyMatch(u, id) ) =>
              /\ Len(out') = 1
              /\ out'[1].name = "match_error" /\ out'[1].to = u
              /\ activeMatches' = activeMatches
              /\ searches' = searches
              /\ timers' = timers
              /\ tasks' = tasks
              /\ hist' = hist]_vars

\* C28 witness: a match has expired, no match is left in activeMatches, and
\* an approve_match or deny_match has just been answered with the error
C28_Witness ==
    /\ \E i \in 1..Len(hist) : hist[i].cancel = << "expired" >>
    /\ DOMAIN activeMatches = {}
    /\ \E u \in Users :
          out = << Ev("match_error", u, <<>>, 0, "Match not found or expired") >>

\* the token passes for a credential: signed with the server's key and not
\* expired
ValidCredential(token) ==
    token.present /\ token.key = JwtSecret /\ ~token.expired

\* C29: a connection that did not present a valid credential is rejected at
\* the handshake and no client event is ever handled for it: every socket
\* that got its handlers presented a valid token and carries the user id of
\* that token, and every event handled, and every chat message on its way,
\* is handled for the user id of the valid token of its socket.
C29_OnlyAuthenticatedHandled ==
    /\ \A c \in DOMAIN sockets :
          IF ValidCredential(sockets[c].token)
          THEN sockets[c].state # "rejected" /\ sockets[c].userId = sockets[c].token.id
          ELSE sockets[c].state = "rejected"
    /\ call # <<>> =>
          /\ call.b.conn \in DOMAIN sockets
          /\ ValidCredential(sockets[call.b.conn].token)
          /\ call.a.user = sockets[call.b.conn].token.id
    /\ \A t \in Running :
          t.kind = "chat" =>
              \E c \in DOMAIN sockets :
                  ValidCredential(sockets[c].token) /\ sockets[c].token.id = t.user

\* C29 witness: a connection with a forged token was rejected, and an
\* approve_match was handled on the other connection
C29_Witness ==
    /\ \E c \in DOMAIN sockets :
          /\ sockets[c].token.present /\ sockets[c].token.key # JwtSecret
          /\ sockets[c].state = "rejected"
    /\ call # <<>> /\ call.fn = "approve_match"

\* the body is absent, empty or made of whitespace only
Blank(body) ==
    ~body.present \/ \A i \in 1..Len(body.text) : body.text[i] \in Whitespace

\* C30: a send_chat_message whose body is absent, empty or whitespace only
\* is answered with chat_error to its sender and starts no broadcast; no
\* message on its way to a room, and no chat_message sent to a room, has a
\* blank text.
C30_BlankMessageRejected ==
    /\ [][\A c \in DOMAIN sockets, room \in ChatRooms, body \in ChatBodies :
             (Blank(body) /\ SendChatMessage(c, room, body)) =>
                 /\ out' = << Ev("chat_error", sockets[c].userId, <<>>, 0,
                                 "Message cannot be empty") >>
                 /\ tasks' = tasks]_vars
    /\ [](\A t \in Running :
             t.kind = "chat" => ~Blank([present |-> TRUE, text |-> t.snap]))
    /\ [](\A k \in 1..Len(out) :
             out[k].name = "chat_message" =>
                 ~Blank([present |-> TRUE, text |-> out[k].message]))

\* C30 witness: a body of whitespace only has just been answered with
\* chat_error
C30_Witness ==
    /\ call # <<>> /\ call.fn = "send_chat_message"
    /\ call.b.data.present /\ call.b.data.text = << "\t", " " >>
    /\ out = << Ev("chat_error", call.a.user, <<>>, 0, "Message cannot be empty") >>

\* the position in the list l of the search s, 0 when s is not in l
IndexIn(l, s) ==
    IF \E k \in 1..Len(l) : l[k].sid = s.sid
    THEN CHOOSE k \in 1..Len(l) : l[k].sid = s.sid
    ELSE 0

\* C31: the periodic scan is greedy in scan order.  When its loops run on a
\* list of at least two searches, its proposals are made in the order of
\* the findCar searches of the list; a findCar search gets a proposal
\* exactly when its owner has no pending match, neither from before nor
\* from an earlier proposal of this scan, and some poolCar search of the
\* list is compatible with it and has such an owner; the proposal is then
\* with the first such poolCar search of the list, and is pending.
C31_ScanIsGreedy ==
    [][\A t \in Running :
          (ScanLoop(t) /\ Len(t.snap) >= 2) =>
              LET finds == SelectSeq(t.snap, LAMBDA s : s.type = "findCar")
                  pools == SelectSeq(t.snap, LAMBDA s : s.type = "poolCar")
                  New == (Len(hist) + 1)..Len(hist')
                  Busy(i, u) ==
                      \/ userHasPendingMatch(activeMatches, u)
                      \/ \E k \in New :
                            /\ IndexIn(finds, hist'[k].s1) < i
                            /\ u \in {hist'[k].id[1], hist'[k].id[2]}
                  Eligible(i) ==
                      {j \in 1..Len(pools) :
                          /\ ~Busy(i, pools[j].user)
                          /\ areSearchesCompatible(finds[i], pools[j])}
              IN /\ \A k \in New :
                        /\ hist'[k].by = "scan"
                        /\ IndexIn(finds, hist'[k].s1) > 0
                        /\ IndexIn(pools, hist'[k].s2) > 0
                 /\ \A k, l \in New :
                        k < l => IndexIn(finds, hist'[k].s1) < IndexIn(finds, hist'[l].s1)
                 /\ \A i \in 1..Len(finds) :
                        LET mine == {k \in New : hist'[k].s1.sid = finds[i].sid}
                        IN IF ~Busy(i, finds[i].user) /\ Eligible(i) # {}
                           THEN \E k \in mine :
                                    LET j == CHOOSE j \in Eligible(i) :
                                                 \A l \in Eligible(i) : j <= l
                                        id == <<finds[i].user, pools[j].user>>
                                    IN /\ mine = {k}
                                       /\ hist'[k].s2 = pools[j]
                                       /\ hist'[k].id = id
                                       /\ id \in DOMAIN activeMatches'
                                       /\ activeMatches'[id].inst = k
                                       /\ activeMatches'[id].status = "pending_approval"
                           ELSE mine = {}]_vars

\* C31 witness: a scan has just made two proposals, and the findCar search
\* of the second one is compatible with the poolCar search of the first
\* one, which comes earlier in the list than the one it was paired with
C31_Witness ==
    /\ Len(hist) = 2 /\ Len(out) = 4
    /\ hist[1].by = "scan" /\ hist[2].by = "scan"
    /\ out[1].inst = 1 /\ out[3].inst = 2
    /\ areSearchesCompatible(hist[2].s1, hist[1].s2)
    /\ hist[1].s2.sid < hist[2].s2.sid

\* C32: in every reachable state the approvals of every match in
\* activeMatches are a subset of its two users, and so at most two.
C32_ApprovalsOfMembers ==
    \A id \in DOMAIN activeMatches :
        /\ activeMatches[id].approvals \subseteq
               {activeMatches[id].user1, activeMatches[id].user2}
        /\ Cardinality(activeMatches[id].approvals) <= 2

\* C32 witness: a pending match of two users holds the approval of one of
\* them, and the approve_match of a third user has just been refused
C32_Witness ==
    /\ \E id \in DOMAIN activeMatches :
          /\ activeMatches[id].user1 # activeMatches[id].user2
          /\ activeMatches[id].status = "pending_approval"
          /\ activeMatches[id].approvals = {activeMatches[id].user1}
    /\ out = << MatchError("u3", "You are not part of this match") >>

\* C33: for every match the events match_cancelled and
\* connection_established exclude each other: the server never emits both
\* for the same match, in either order.
C33_CancelledXorConnected ==
    \A i \in 1..Len(hist) :
        ~(hist[i].cancel # <<>> /\ hist[i].conn # <<0, 0>>)

\* C34: no match ever has user1 equal to user2: nobody is proposed a match
\* with themselves, also after start_search events of both kinds.
C34_NoSelfMatch ==
    \A i \in 1..Len(hist) : hist[i].id[1] # hist[i].id[2]

\* C35: an approval recorded in a pending match stays recorded until the
\* match is connected or cancelled: in every step a pending match that holds
\* an approval either stays in activeMatches, the same match object with at
\* least the same approvals, or is cancelled with a match_cancelled event.
C35_ApprovalKept ==
    [][\A id \in DOMAIN activeMatches :
          LET m == activeMatches[id]
          IN (m.status = "pending_approval" /\ m.approvals # {}) =>
                 \/ /\ id \in DOMAIN activeMatches'
                    /\ activeMatches'[id].inst = m.inst
                    /\ m.approvals \subseteq activeMatches'[id].approvals
                 \/ Len(hist'[m.inst].cancel) > Len(hist[m.inst].cancel)]_vars

\* C36: a match is pending_approval only while both of its users own a
\* stored ActiveSearch record, from the step that creates it on.
C36_PendingUsersSearching ==
    \A id \in DOMAIN activeMatches :
        activeMatches[id].status = "pending_approval" =>
            /\ SearchesOf(searches, activeMatches[id].user1) # {}
            /\ SearchesOf(searches, activeMatches[id].user2) # {}

\* the two users of the connection that owns the chat room
RoomUsers(room) == {room[2], room[3]}

\* C37: chat traffic of a connection stays between its two users: a socket
\* joins a chat room only for one of the two users of the room, a
\* send_chat_message is taken up for a room only from one of its two users,
\* and every chat_message broadcast to a room comes from one of them, so
\* that nothing a third user sends changes what the two users receive.
C37_ChatStaysBetweenUsers ==
    /\ [](\A c \in DOMAIN sockets :
             \A room \in sockets[c].rooms : sockets[c].userId \in RoomUsers(room))
    /\ [](\A t \in Running : t.kind = "chat" => t.user \in RoomUsers(t.id))
    /\ [](\A k \in 1..Len(out) :
             out[k].name = "chat_message" => out[k].senderId \in RoomUsers(out[k].id))

\* the connection requests with status accepted
Accepted == {i \in 1..Len(connections) : connections[i].status = "accepted"}

\* the respondToConnectionRequest calls that have not returned
Responding == {t \in Running : t.kind = "respond"}

\* C38: for the ride, availableSeats is never negative, the requests with
\* status accepted are never more than the seats the ride was posted with,
\* and when no answer is being handled every accepted request has taken a
\* seat: the seats taken are as many as the accepted requests.
C38_SeatsNeverOversold ==
    /\ ride.availableSeats >= 0
    /\ Cardinality(Accepted) <= ride.seats
    /\ Responding = {} => ride.seats - ride.availableSeats = Cardinality(Accepted)

====
